---- MODULE Spec2Model ----
(***************************************************************************)
(* Model of src/server.js: the POST /api/v1/detect-amounts handler, the    *)
(* upload middleware in front of it, the uploads directory and the         *)
(* generative-AI provider it awaits.                                       *)
(*                                                                         *)
(* Texts are sequences of lexical tokens:                                  *)
(*   "F"  three backticks (a markdown fence)                               *)
(*   "J"  the letters json, in any case                                    *)
(*   "w"  one whitespace character                                         *)
(*   "S"  a JSON object literal that conforms to AMOUNT_SCHEMA             *)
(*   "B"  a JSON object literal that violates AMOUNT_SCHEMA                *)
(*   "n"  the JSON literal null (valid JSON, not an object)                *)
(*   "x"  a character that is not part of any JSON text                    *)
(* The handler is an async function with a single await: the code before   *)
(* the await and the code after it each run to completion on the event     *)
(* loop, so each is one action.                                            *)
(***************************************************************************)
EXTENDS Integers, Sequences, FiniteSets, TLC

VARIABLES
  fs,            \* uploads/ directory: existing path -> the request whose upload it holds
  pc,            \* per request: "new", "uploaded", "awaiting", "done"
  filePath,      \* per request: req.file?.path (<<>> undefined, <<p>> path p)
  calls,         \* per request: number of generateContent invocations
  events,        \* per request: the steps taken, in order
  touched,       \* per request: owners of the files it has read or unlinked
  responses,     \* per request: the HTTP responses sent, in order
  reply,         \* per request: how the provider settled the awaited promise
  extractedText, \* per request: rawText as assigned at line 112 (<<>> none, <<t>> text t)
  rawText,       \* per request: rawText as reassigned at line 121 (<<>> none, <<t>> text t)
  escaped,       \* per request: an exception left the handler (rejected promise)
  sending,       \* the requests the clients send in this run
  maxText        \* longest text the provider returns in this run

vars == <<fs, pc, filePath, calls, events, touched, responses, reply,
          extractedText, rawText, escaped, sending, maxText>>

\* ------------------------------------------------------------------ bounds

NumReq == 2
MaxLen == 4

Reqs == 1 .. NumReq
Paths == 1 .. NumReq

Tokens == {"F", "J", "w", "S", "B", "n", "x"}

\* the texts of exactly n tokens
Texts(n) == [1 .. n -> Tokens]

\* ------------------------------------------------------------ JSON values

ObjectValue(members) == [type |-> "object", members |-> members]
NullValue == [type |-> "null", members |-> {}]

ConformingObject ==
  ObjectValue({<<"currency", "INR">>, <<"ocr_confidence", "0.9">>,
               <<"amounts", "[]">>, <<"status", "ok">>})
ViolatingObject == ObjectValue({<<"status", "bogus">>})

\* AMOUNT_SCHEMA: an object with the four required members and a status of the enum.
AMOUNT_SCHEMA(v) ==
  /\ v.type = "object"
  /\ \A k \in {"currency", "amounts", "status", "ocr_confidence"} :
       \E m \in v.members : m[1] = k
  /\ \E m \in v.members :
       m[1] = "status" /\ m[2] \in {"ok", "no_amounts_found", "document_too_noisy"}

\* ------------------------------------------------------------ text functions

RECURSIVE TrimStart(_)
TrimStart(t) ==
  IF t # <<>> /\ Head(t) = "w" THEN TrimStart(Tail(t)) ELSE t

RECURSIVE TrimEnd(_)
TrimEnd(t) ==
  IF t # <<>> /\ t[Len(t)] = "w" THEN TrimEnd(SubSeq(t, 1, Len(t) - 1)) ELSE t

\* String.prototype.trim
Trim(t) == TrimEnd(TrimStart(t))

\* .replace(/^```json\s*/i, "")
StripLeadingFence(t) ==
  IF Len(t) >= 2 /\ t[1] = "F" /\ t[2] = "J"
  THEN TrimStart(SubSeq(t, 3, Len(t)))
  ELSE t

KeepTrailingFence(t) == t

\* .replace(/```$/i, "")
StripTrailingFence(t) ==
  IF t # <<>> /\ t[Len(t)] = "F" THEN SubSeq(t, 1, Len(t) - 1) ELSE t

\* line 121: rawText.trim().replace(/^```json\s*/i, "").replace(/```$/i, "")
FenceStrip(t) == StripTrailingFence(StripLeadingFence(Trim(t)))

\* JSON.parse: surrounding whitespace is skipped, exactly one value must remain.
JSONParse(t) ==
  LET body == Trim(t)
  IN IF Len(body) = 1 /\ body[1] \in {"S", "B", "n"}
     THEN [ok |-> TRUE,
           value |-> CASE body[1] = "S" -> ConformingObject
                       [] body[1] = "B" -> ViolatingObject
                       [] OTHER -> NullValue]
     ELSE [ok |-> FALSE, value |-> NullValue]

\* ------------------------------------------------------------ provider replies

NestedKinds == {"none", "fn", "fnNull", "noFn"}
TopKinds == {"none", "fn", "prop"}

Pending ==
  [settled |-> "pending", nested |-> "none", nestedText |-> <<>>,
   top |-> "none", topText |-> <<>>, message |-> ""]

\* A resolved generateContent promise. nested: response.response is absent
\* ("none"), has a text() returning a string ("fn"), has a text() returning
\* undefined ("fnNull"), or has no text function ("noFn"). top: response.text is
\* absent ("none"), a function returning a string ("fn") or a string ("prop").
\* text is the string of the member the code reads first.
Resolved(nk, tk, text) ==
  [settled |-> "resolved",
   nested |-> nk, nestedText |-> IF nk = "fn" THEN text ELSE <<>>,
   top |-> tk,
   topText |-> IF nk \in {"none", "fnNull"} /\ tk # "none" THEN text ELSE <<>>,
   message |-> ""]

ProviderErrors == {"fetch failed"}

Rejected(m) ==
  [settled |-> "rejected", nested |-> "none", nestedText |-> <<>>,
   top |-> "none", topText |-> <<>>, message |-> m]

\* line 112: response.response?.text() ?? response.text?.() ?? ""
ExtractText(rep) ==
  IF rep.nested = "noFn"
  THEN [threw |-> TRUE, text |-> <<>>,
        message |-> "response.response.text is not a function"]
  ELSE IF rep.nested = "fn"
  THEN [threw |-> FALSE, text |-> rep.nestedText, message |-> ""]
  ELSE IF rep.top = "prop"
  THEN [threw |-> TRUE, text |-> <<>>, message |-> "response.text is not a function"]
  ELSE IF rep.top = "fn"
  THEN [threw |-> FALSE, text |-> rep.topText, message |-> ""]
  ELSE [threw |-> FALSE, text |-> <<>>, message |-> ""]

\* ------------------------------------------------------------ responses

NoFileResponse ==
  [code |-> 400,
   body |-> [status |-> "error", reason |-> <<"No document file uploaded.">>]]

EmptyResponse ==
  [code |-> 500,
   body |-> [status |-> "error", reason |-> <<"Model returned an empty response.">>]]

InvalidJsonTrimmed(text) ==
  [code |-> 500,
   body |-> [status |-> "error", reason |-> <<"Invalid JSON returned by model.">>,
             raw_model_output |-> Trim(text)]]

\* lines 127-131
InvalidJsonResponse(text) ==
  [code |-> 500,
   body |-> [status |-> "error", reason |-> <<"Invalid JSON returned by model.">>,
             raw_model_output |-> text]]

\* lines 138-141
InternalErrorResponse(message) ==
  [code |-> 500,
   body |-> [status |-> "error",
             reason |-> <<"Internal processing error: ", message>>]]

ValidatedResponse(value) ==
  IF AMOUNT_SCHEMA(value)
  THEN [code |-> 200, body |-> value]
  ELSE InternalErrorResponse("schema violation")

\* line 134: res.json(structuredResult)
SuccessResponse(value) == [code |-> 200, body |-> value]

\* ------------------------------------------------------------ handler steps

GuardOmitted(f) == FALSE

\* line 73: if (!filePath)
MissingFile(f) == f = <<>>

\* fs.existsSync(filePath)
ExistsSync(fsys, f) == f # <<>> /\ f[1] \in DOMAIN fsys

\* lines 61-68: fs.readFileSync throws when the file is missing or cannot be read
ReadThrows(fsys, f, fault) == ~ExistsSync(fsys, f) \/ fault

ReadErrorMessage(fsys, f) ==
  IF f = <<>> THEN "The \"path\" argument must be of type string"
  ELSE IF f[1] \notin DOMAIN fsys THEN "ENOENT: no such file or directory"
  ELSE "EACCES: permission denied"

\* line 9, line 70: multer stores the upload under a randomly generated name,
\* one that no file of the directory carries
FreshPaths(fsys) == Paths \ DOMAIN fsys

UnlinkWholeDirectory(fsys, f) == DOMAIN fsys

\* lines 143-144: the paths the finally block unlinks
UnlinkTargets(fsys, f) == IF ExistsSync(fsys, f) THEN {f[1]} ELSE {}

NoCleanup(fsys, f, fault) ==
  [fs |-> fsys, events |-> <<>>, touched |-> {}, escaped |-> FALSE]

\* lines 142-146: the finally block; fault: fs.unlinkSync throws
Finally(fsys, f, fault) ==
  LET targets == UnlinkTargets(fsys, f)
  IN IF targets = {}
     THEN [fs |-> fsys, events |-> <<>>, touched |-> {}, escaped |-> FALSE]
     ELSE IF fault
     THEN [fs |-> fsys, events |-> <<"unlinkThrow">>, touched |-> {}, escaped |-> TRUE]
     ELSE [fs |-> [p \in DOMAIN fsys \ targets |-> fsys[p]],
           events |-> <<"unlink">>,
           touched |-> {fsys[p] : p \in targets},
           escaped |-> FALSE]

FinallyFirst(tryEvents, finallyEvents) == finallyEvents \o tryEvents

\* lines 79-146: the try (or catch) block runs, then the finally block
TryThenFinally(tryEvents, finallyEvents) == tryEvents \o finallyEvents

IsBlank(text) == Trim(text) = <<>>

\* line 114: if (!rawText)
IsEmpty(text) == text = <<>>

\* lines 112-141: what the code after the await does with the settled promise
Continuation(rep) ==
  IF rep.settled = "rejected"
  THEN [response |-> InternalErrorResponse(rep.message),
        extracted |-> <<>>, raw |-> <<>>]
  ELSE LET ex == ExtractText(rep)
       IN IF ex.threw
          THEN [response |-> InternalErrorResponse(ex.message),
                extracted |-> <<>>, raw |-> <<>>]
          ELSE IF IsEmpty(ex.text)
          THEN [response |-> EmptyResponse, extracted |-> <<ex.text>>, raw |-> <<>>]
          ELSE LET stripped == FenceStrip(ex.text)
                   parsed == JSONParse(stripped)
               IN [response |-> IF parsed.ok
                                THEN SuccessResponse(parsed.value)
                                ELSE InvalidJsonResponse(stripped),
                   extracted |-> <<ex.text>>,
                   raw |-> <<stripped>>]

\* ------------------------------------------------------------ actions

\* line 70, upload.single('document'): multer stores the file, if the request has one
Upload(r) ==
  /\ pc[r] = "new"
  /\ r \in sending
  /\ \E hasFile \in BOOLEAN :
       IF hasFile
       THEN \E p \in FreshPaths(fs) :
              /\ fs' = [q \in DOMAIN fs \cup {p} |-> IF q = p THEN r ELSE fs[q]]
              /\ filePath' = [filePath EXCEPT ![r] = <<p>>]
       ELSE /\ fs' = fs
            /\ filePath' = [filePath EXCEPT ![r] = <<>>]
  /\ pc' = [pc EXCEPT ![r] = "uploaded"]
  /\ UNCHANGED <<calls, events, touched, responses, reply, extractedText,
                 rawText, escaped, sending, maxText>>

\* lines 70-110: the handler up to the await of generateContent
Handle(r) ==
  /\ pc[r] = "uploaded"
  /\ IF MissingFile(filePath[r])
     THEN /\ responses' = [responses EXCEPT ![r] = Append(@, NoFileResponse)]
          /\ events' = [events EXCEPT ![r] = @ \o <<"respond">>]
          /\ pc' = [pc EXCEPT ![r] = "done"]
          /\ UNCHANGED <<fs, calls, touched, escaped>>
     ELSE \E readFault \in BOOLEAN, unlinkFault \in BOOLEAN :
            IF ReadThrows(fs, filePath[r], readFault)
            THEN LET fin == Finally(fs, filePath[r], unlinkFault)
                 IN /\ responses' =
                         [responses EXCEPT ![r] =
                            Append(@, InternalErrorResponse(
                                        ReadErrorMessage(fs, filePath[r])))]
                    /\ events' =
                         [events EXCEPT ![r] =
                            @ \o TryThenFinally(<<"readThrow", "respond">>, fin.events)]
                    /\ fs' = fin.fs
                    /\ touched' = [touched EXCEPT ![r] = @ \cup fin.touched]
                    /\ escaped' = [escaped EXCEPT ![r] = fin.escaped]
                    /\ pc' = [pc EXCEPT ![r] = "done"]
                    /\ UNCHANGED calls
            ELSE /\ events' = [events EXCEPT ![r] = @ \o <<"read", "call">>]
                 /\ touched' = [touched EXCEPT ![r] = @ \cup {fs[filePath[r][1]]}]
                 /\ calls' = [calls EXCEPT ![r] = @ + 1]
                 /\ pc' = [pc EXCEPT ![r] = "awaiting"]
                 /\ UNCHANGED <<fs, responses, escaped>>
  /\ UNCHANGED <<filePath, reply, extractedText, rawText, sending, maxText>>

\* lines 112-146: the handler after the await, to its end
Resume(r, rep) ==
  /\ pc[r] = "awaiting"
  /\ \E unlinkFault \in BOOLEAN :
       LET out == Continuation(rep)
           fin == Finally(fs, filePath[r], unlinkFault)
       IN /\ reply' = [reply EXCEPT ![r] = rep]
          /\ extractedText' = [extractedText EXCEPT ![r] = out.extracted]
          /\ rawText' = [rawText EXCEPT ![r] = out.raw]
          /\ responses' = [responses EXCEPT ![r] = Append(@, out.response)]
          /\ events' =
               [events EXCEPT ![r] = @ \o TryThenFinally(<<"respond">>, fin.events)]
          /\ fs' = fin.fs
          /\ touched' = [touched EXCEPT ![r] = @ \cup fin.touched]
          /\ escaped' = [escaped EXCEPT ![r] = fin.escaped]
          /\ pc' = [pc EXCEPT ![r] = "done"]
  /\ UNCHANGED <<filePath, calls, sending, maxText>>

\* line 98: the awaited promise resolves
ProviderResolves(r) ==
  /\ pc[r] = "awaiting"
  /\ \E nk \in NestedKinds, tk \in TopKinds, n \in 0 .. maxText :
       \E text \in Texts(n) : Resume(r, Resolved(nk, tk, text))

\* line 98: the awaited promise rejects
ProviderRejects(r) ==
  /\ pc[r] = "awaiting"
  /\ \E m \in ProviderErrors : Resume(r, Rejected(m))

Start(clients, longest) ==
  /\ fs = [p \in {} |-> p]
  /\ pc = [r \in Reqs |-> "new"]
  /\ filePath = [r \in Reqs |-> <<>>]
  /\ calls = [r \in Reqs |-> 0]
  /\ events = [r \in Reqs |-> <<>>]
  /\ touched = [r \in Reqs |-> {}]
  /\ responses = [r \in Reqs |-> <<>>]
  /\ reply = [r \in Reqs |-> Pending]
  /\ extractedText = [r \in Reqs |-> <<>>]
  /\ rawText = [r \in Reqs |-> <<>>]
  /\ escaped = [r \in Reqs |-> FALSE]
  /\ sending = clients
  /\ maxText = longest

\* one request at a time, the provider returning any text up to MaxLen tokens
Init == Start({1}, MaxLen)

\* all requests in flight together, the provider returning empty texts only
InitConcurrent == Start(Reqs, 0)

Next ==
  \E r \in Reqs :
    \/ Upload(r)
    \/ Handle(r)
    \/ ProviderResolves(r)
    \/ ProviderRejects(r)

Spec == Init /\ [][Next]_vars

SpecConcurrent == InitConcurrent /\ [][Next]_vars

\* ------------------------------------------------------------ properties

Done(r) == pc[r] = "done"
HasFile(r) == filePath[r] # <<>>
OwnFileExists(r) ==
  HasFile(r) /\ filePath[r][1] \in DOMAIN fs /\ fs[filePath[r][1]] = r
Positions(r, e) == {i \in 1 .. Len(events[r]) : events[r][i] = e}
Before(r, a, b) == \A i \in Positions(r, a), j \in Positions(r, b) : i < j

C2_NoFileIs400 ==
  \A r \in Reqs :
    (pc[r] # "new" /\ ~HasFile(r)) =>
      /\ calls[r] = 0
      /\ touched[r] = {}
      /\ \A p \in DOMAIN fs : fs[p] # r
      /\ pc[r] # "awaiting"
      /\ Done(r) =>
           /\ responses[r] =
                <<[code |-> 400,
                   body |-> [status |-> "error",
                             reason |-> <<"No document file uploaded.">>]]>>
           /\ events[r] = <<"respond">>
           /\ ~escaped[r]

C2_Witness ==
  \E r \in Reqs : Done(r) /\ ~HasFile(r) /\ Len(responses[r]) = 1

\* C3: when the fence-stripped text parses as JSON the response is 200 with
\* exactly the parsed value, whether or not the value conforms to AMOUNT_SCHEMA.
C3_ParsedValuePassedThrough ==
  \A r \in Reqs :
    (Done(r) /\ rawText[r] # <<>> /\ JSONParse(rawText[r][1]).ok) =>
      responses[r] = <<[code |-> 200, body |-> JSONParse(rawText[r][1]).value]>>

C3_Witness ==
  \E r \in Reqs :
    /\ Done(r) /\ rawText[r] # <<>> /\ JSONParse(rawText[r][1]).ok
    /\ ~AMOUNT_SCHEMA(JSONParse(rawText[r][1]).value)
    /\ responses[r][1].code = 200

\* C4: when the (non-empty) text does not parse as JSON the response is 500
\* "Invalid JSON returned by model." and raw_model_output is the fence-stripped
\* text, the string handed to the parser.
C4_InvalidJsonCarriesStrippedText ==
  \A r \in Reqs :
    (Done(r) /\ rawText[r] # <<>> /\ ~JSONParse(rawText[r][1]).ok) =>
      /\ extractedText[r] # <<>>
      /\ rawText[r][1] = FenceStrip(extractedText[r][1])
      /\ responses[r] =
           <<[code |-> 500,
              body |-> [status |-> "error",
                        reason |-> <<"Invalid JSON returned by model.">>,
                        raw_model_output |-> rawText[r][1]]]>>

C4_Witness ==
  \E r \in Reqs :
    /\ Done(r) /\ rawText[r] # <<>> /\ ~JSONParse(rawText[r][1]).ok
    /\ rawText[r][1] # extractedText[r][1]
    /\ rawText[r][1] # Trim(rawText[r][1])

\* C5: an extracted text is answered with 500 "Model returned an empty
\* response." exactly when it is the empty string; that reason is given to no
\* other text and differs from the missing-upload and invalid-JSON reasons.
C5_EmptyTextHasItsOwnReason ==
  \A r \in Reqs :
    Done(r) =>
      ( (extractedText[r] = << <<>> >>)
        <=> (responses[r] =
               <<[code |-> 500,
                  body |-> [status |-> "error",
                            reason |-> <<"Model returned an empty response.">>]]>>) )

C5_Witness ==
  \E r \in Reqs :
    /\ Done(r) /\ extractedText[r] = << <<>> >>
    /\ reply[r].nested = "fn"
    /\ responses[r][1].body.reason = <<"Model returned an empty response.">>

Fenced(t) ==
  LET u == Trim(t)
  IN Len(u) >= 3 /\ u[1] = "F" /\ u[2] = "J" /\ u[Len(u)] = "F"
FencedBody(t) == LET u == Trim(t) IN SubSeq(u, 3, Len(u) - 1)

\* C6 (as stated): fence stripping is idempotent (stripping the stripped text
\* again changes nothing) and a fenced text parses as its body.
C6_FenceStripIdempotent ==
  \A r \in Reqs :
    rawText[r] # <<>> =>
      /\ FenceStrip(rawText[r][1]) = rawText[r][1]
      /\ Fenced(extractedText[r][1]) =>
           JSONParse(rawText[r][1]) = JSONParse(FencedBody(extractedText[r][1]))

\* C6 (amended): a text wrapped in a leading ```json fence and a trailing ```
\* fence is answered as the text between the fences is parsed: 200 with the
\* body's value when the body is JSON, 500 "Invalid JSON returned by model."
\* when it is not. (Stripping is not idempotent.)
C6_FencedTextParsesAsBody ==
  \A r \in Reqs :
    (Done(r) /\ extractedText[r] # <<>> /\ Fenced(extractedText[r][1])) =>
      LET parsed == JSONParse(FencedBody(extractedText[r][1]))
      IN /\ rawText[r] # <<>>
         /\ JSONParse(rawText[r][1]) = parsed
         /\ IF parsed.ok
            THEN responses[r] = <<[code |-> 200, body |-> parsed.value]>>
            ELSE /\ Len(responses[r]) = 1
                 /\ responses[r][1].code = 500
                 /\ responses[r][1].body.reason = <<"Invalid JSON returned by model.">>

C6_Witness ==
  \E r \in Reqs :
    /\ Done(r) /\ extractedText[r] # <<>> /\ Fenced(extractedText[r][1])
    /\ JSONParse(FencedBody(extractedText[r][1])).ok
    /\ responses[r][1].code = 200

ErrorEnvelope(body) ==
  /\ {"status", "reason"} \subseteq DOMAIN body
  /\ DOMAIN body \subseteq {"status", "reason", "raw_model_output"}
  /\ body.status = "error"

\* C7: every failure of a request ends in exactly one response, an error
\* envelope with 400 for the missing file and 500 otherwise, and no exception
\* leaves the handler.
C7_EveryFailureIsOneEnvelope ==
  \A r \in Reqs :
    Done(r) =>
      /\ ~escaped[r]
      /\ Len(responses[r]) = 1
      /\ responses[r][1].code # 200 =>
           /\ ErrorEnvelope(responses[r][1].body)
           /\ responses[r][1].code = IF HasFile(r) THEN 500 ELSE 400

\* C8: concurrent requests do not interfere: a request reads and unlinks only
\* its own upload, its file is in place from the upload until its own cleanup,
\* requests in flight hold different paths, and its response is the one its own
\* provider reply determines.
C8_RequestsAreIsolated ==
  /\ \A r \in Reqs : touched[r] \subseteq {r}
  /\ \A r \in Reqs :
       (pc[r] \in {"uploaded", "awaiting"} /\ HasFile(r)) => OwnFileExists(r)
  /\ \A r, q \in Reqs :
       (r # q /\ pc[r] \in {"uploaded", "awaiting"} /\ pc[q] \in {"uploaded", "awaiting"}
          /\ HasFile(r) /\ HasFile(q)) => filePath[r] # filePath[q]
  /\ \A r \in Reqs :
       (Done(r) /\ reply[r].settled # "pending") =>
         responses[r] = <<Continuation(reply[r]).response>>

C8_Witness ==
  \E r, q \in Reqs :
    /\ r # q
    /\ Done(r) /\ Positions(r, "unlink") # {} /\ Positions(r, "call") # {}
    /\ pc[q] = "awaiting" /\ OwnFileExists(q)
    /\ touched[r] = {r}

\* C9: with a file, the handler reads the file, invokes the provider at most
\* once, responds exactly once and only then unlinks; a provider failure is
\* answered 500 "Internal processing error: " + message after a single call.
C9_ReadCallRespondCleanup ==
  \A r \in Reqs :
    HasFile(r) =>
      /\ calls[r] <= 1
      /\ Cardinality(Positions(r, "call")) = calls[r]
      /\ Len(responses[r]) = Cardinality(Positions(r, "respond"))
      /\ Len(responses[r]) <= 1
      /\ Done(r) => Len(responses[r]) = 1
      /\ Before(r, "read", "call")
      /\ Positions(r, "call") # {} => Positions(r, "read") # {}
      /\ Before(r, "call", "respond")
      /\ Before(r, "respond", "unlink")
      /\ Before(r, "respond", "unlinkThrow")
      /\ (Positions(r, "unlink") \cup Positions(r, "unlinkThrow")) # {} =>
           Positions(r, "respond") # {}
      /\ reply[r].settled = "rejected" =>
           /\ calls[r] = 1
           /\ responses[r] =
                <<[code |-> 500,
                   body |-> [status |-> "error",
                             reason |-> <<"Internal processing error: ",
                                          reply[r].message>>]]>>

C9_Witness ==
  \E r \in Reqs :
    /\ reply[r].settled = "rejected"
    /\ events[r] = <<"read", "call", "respond", "unlink">>

\* C10: the text is the nested response's text() result when there is one, the
\* top-level text when there is no nested response, and empty when there is
\* neither; in both shapes the reply is not answered as an internal error.
C10_BothShapesYieldText ==
  \A r \in Reqs :
    (Done(r) /\ reply[r].settled = "resolved") =>
      /\ reply[r].nested = "fn" => extractedText[r] = <<reply[r].nestedText>>
      /\ (reply[r].nested = "none" /\ reply[r].top # "none") =>
           extractedText[r] = <<reply[r].topText>>
      /\ (reply[r].nested = "none" /\ reply[r].top = "none") =>
           extractedText[r] = << <<>> >>

====
